---- MODULE Spec2Model ----
(***************************************************************************)
(* Model of the substore storage layer of penumbra                         *)
(* (crates/storage/src/store/substore.rs): the namespace layout, the       *)
(* order-preserving node-key encoding, the read snapshot and the commit    *)
(* pipeline over a shared ordered key-value store.                         *)
(*                                                                         *)
(* The backing store is a family of ordered byte maps (column families).   *)
(* Keys are byte strings and are ordered bytewise, as RocksDB orders them. *)
(* The Merkle tree (the jmt crate) is modelled as a radix tree over the    *)
(* nibbles of the key hash; widths are scaled down (see the bounds).       *)
(***************************************************************************)
EXTENDS Integers, Sequences, FiniteSets, TLC

(***************************************************************************)
(* Bounds of the model.                                                    *)
(***************************************************************************)
\* Values of one nibble (16 in the jmt crate); a byte holds two nibbles.
NibbleBase == 2
\* Bytes of a key hash (32 in the jmt crate).
HashBytes == 1
\* Logical keys 1..NumKeys of the verifiable store.
NumKeys == 2
\* Values 1..NumValues a key can be given.
NumValues == 2
\* Keys 1..NumNVKeys of the non-verifiable store.
NumNVKeys == 1
\* The number of commits the caller starts (versions start at 0).
MaxCommits == 3
\* The number of entries (verifiable and non-verifiable) of one change-set.
MaxChanges == 2
\* The number of change-set entries of all commits together.
MaxTotalChanges == 2
\* The number of commits that may fail with a backing-store error.
MaxFailures == 1
\* The change-set entries of all commits together when no reader holds a snapshot.
MaxTotalChangesAlone == 3

(***************************************************************************)
(* Program constants.                                                      *)
(***************************************************************************)
\* Width in bytes of an encoded version (u64).
VersionBytes == 8
\* Width in bytes of a borsh sequence length (u32).
LenBytes == 4

ByteBase == NibbleBase * NibbleBase
Bytes == 0 .. (ByteBase - 1)
Nibbles == 0 .. (NibbleBase - 1)
HashNibbles == 2 * HashBytes

RECURSIVE Pow(_, _)
Pow(b, e) == IF e = 0 THEN 1 ELSE b * Pow(b, e - 1)
\* The powers of the byte base, by exponent + 1.
BytePow == [e \in 1 .. (VersionBytes + 1) |-> Pow(ByteBase, e - 1)]

\* u64::MAX, the pre-genesis sentinel version, at the model's byte width.
U64Max == Pow(ByteBase, VersionBytes) - 1

Keys == 1 .. NumKeys
Values == 1 .. NumValues
NVKeys == 1 .. NumNVKeys
\* The versions a snapshot can be bound to.
Versions == (0 .. MaxCommits) \cup {U64Max - 1, U64Max}

(***************************************************************************)
(* Option and Result values.                                               *)
(***************************************************************************)
None == <<>>
Some(v) == <<v>>
IsSome(o) == Len(o) = 1
Unwrap(o) == o[1]

Ok(v) == [ok |-> TRUE, val |-> <<v>>, err |-> ""]
Err(e) == [ok |-> FALSE, val |-> <<>>, err |-> e]
Val(r) == r.val[1]

(***************************************************************************)
(* Integer and byte-string helpers.                                        *)
(***************************************************************************)
\* u64::to_be_bytes, at width w.
ToBeBytes(n, w) == [i \in 1 .. w |-> (n \div BytePow[w - i + 1]) % ByteBase]
\* The little-endian integer encoding borsh uses, at width w.
ToLeBytes(n, w) == [i \in 1 .. w |-> (n \div BytePow[i]) % ByteBase]

RECURSIVE FromLeBytes(_)
FromLeBytes(b) ==
    IF Len(b) = 0 THEN 0 ELSE b[1] + ByteBase * FromLeBytes(Tail(b))

\* u64::saturating_add(n, 1)
SaturatingAdd1(n) == IF n = U64Max THEN U64Max ELSE n + 1
\* u64::wrapping_add(n, 1)
WrappingAdd1(n) == IF n = U64Max THEN 0 ELSE n + 1

MinOf(a, b) == IF a < b THEN a ELSE b

\* Bytewise (lexicographic) order of byte strings, the order of the backing store.
BytesLess(a, b) ==
    \/ /\ Len(a) < Len(b)
       /\ \A i \in 1 .. Len(a) : a[i] = b[i]
    \/ \E i \in 1 .. MinOf(Len(a), Len(b)) :
          /\ a[i] < b[i]
          /\ \A j \in 1 .. (i - 1) : a[j] = b[j]

(***************************************************************************)
(* One column family: a finite map from byte-string keys to values.        *)
(***************************************************************************)
EmptyCf == [k \in {} |-> <<>>]
CfHas(cf, k) == k \in DOMAIN cf
CfGet(cf, k) == IF k \in DOMAIN cf THEN Some(cf[k]) ELSE None
CfPut(cf, k, v) == [x \in (DOMAIN cf) \cup {k} |-> IF x = k THEN v ELSE cf[x]]
CfDelete(cf, k) == [x \in (DOMAIN cf) \ {k} |-> cf[x]]
\* The greatest key of a non-empty column family (seek_to_last).
CfLastKey(cf) == CHOOSE k \in DOMAIN cf : \A x \in DOMAIN cf : x = k \/ BytesLess(x, k)

(***************************************************************************)
(* Namespace layout (SubstoreConfig).  A name is a sequence of text pieces; *)
(* format! concatenates them.                                              *)
(***************************************************************************)
\* The prefixes of the namespaces the store is opened with ("" is the root); the
\* others are made of the very pieces the partition names end with.
Prefixes == { <<>>, <<"jmt">>, <<"jmt", "-", "keys">> }

\* SubstoreConfig::new naming the non-verifiable partition without the prefix.
SubstoreConfigNew_SharedNonverifiable(prefix) ==
    [ prefix                 |-> prefix,
      cf_jmt                 |-> <<"substore", "-">> \o prefix \o <<"-", "jmt">>,
      cf_jmt_keys            |-> <<"substore", "-">> \o prefix \o <<"-", "jmt", "-", "keys">>,
      cf_jmt_values          |-> <<"substore", "-">> \o prefix \o <<"-", "jmt", "-", "values">>,
      cf_jmt_keys_by_keyhash |-> <<"substore", "-">> \o prefix
                                    \o <<"-", "jmt", "-", "keys", "-", "by", "-", "keyhash">>,
      cf_nonverifiable       |-> <<"substore", "-", "-", "nonverifiable">> ]

\* SubstoreConfig::new
SubstoreConfigNew(prefix) ==
    [ prefix                 |-> prefix,
      cf_jmt                 |-> <<"substore", "-">> \o prefix \o <<"-", "jmt">>,
      cf_jmt_keys            |-> <<"substore", "-">> \o prefix \o <<"-", "jmt", "-", "keys">>,
      cf_jmt_values          |-> <<"substore", "-">> \o prefix \o <<"-", "jmt", "-", "values">>,
      cf_jmt_keys_by_keyhash |-> <<"substore", "-">> \o prefix
                                    \o <<"-", "jmt", "-", "keys", "-", "by", "-", "keyhash">>,
      cf_nonverifiable       |-> <<"substore", "-">> \o prefix \o <<"-", "nonverifiable">> ]

\* SubstoreConfig::columns
Columns(config) ==
    { config.cf_jmt, config.cf_jmt_keys, config.cf_jmt_values,
      config.cf_jmt_keys_by_keyhash, config.cf_nonverifiable }

AllColumns == UNION { Columns(SubstoreConfigNew(p)) : p \in Prefixes }

\* The namespace the commits of the model work on.
Config == SubstoreConfigNew(<<>>)

(***************************************************************************)
(* Keys, key hashes and values as bytes.                                   *)
(***************************************************************************)
\* The raw bytes of logical key k.
KeyBytes(k) == <<k>>
\* The raw bytes of value v.
ValueBytes(v) == <<v>>
\* KeyHash::with::<Sha256>(key): an injective scrambling of the key, as bytes.
KeyHashWith(k) == ToBeBytes((5 * k + 1) % BytePow[HashBytes + 1], HashBytes)
\* ValueHash::with::<Sha256>(value), for a value given as bytes.
ValueHashWith(bytes) == <<7>> \o bytes

KeyHashes == { KeyHashWith(k) : k \in Keys }
\* The key hashes readers ask for: the hash of every key, and one that no key has.
QueriedKeyHashes == KeyHashes \cup { ToBeBytes(0, HashBytes) }

\* The nibbles of a byte string, high nibble first (NibblePath::nibbles).
NibblesOf(bytes) ==
    [i \in 1 .. (2 * Len(bytes)) |->
        IF i % 2 = 1 THEN bytes[(i + 1) \div 2] \div NibbleBase
                     ELSE bytes[i \div 2] % NibbleBase]

\* The bytes of a nibble path, two nibbles a byte, an odd last nibble padded by 0.
PackNibbles(path) ==
    [i \in 1 .. ((Len(path) + 1) \div 2) |->
        path[2 * i - 1] * NibbleBase + (IF 2 * i <= Len(path) THEN path[2 * i] ELSE 0)]

(***************************************************************************)
(* Borsh encodings used by the store.                                      *)
(***************************************************************************)
\* Vec<u8>: a u32 length, then the bytes.
BorshVec(bytes) == ToLeBytes(Len(bytes), LenBytes) \o bytes

\* Option<Vec<u8>>::try_to_vec: a tombstone is the tag 0, a value the tag 1 and the vector.
BorshOptionEncode(o) == IF IsSome(o) THEN <<1>> \o BorshVec(Unwrap(o)) ELSE <<0>>

\* Option<Vec<u8>>::try_from_slice
BorshOptionDecode(b) ==
    IF b = <<0>> THEN Ok(None)
    ELSE IF /\ Len(b) >= 1 + LenBytes
            /\ b[1] = 1
            /\ FromLeBytes(SubSeq(b, 2, 1 + LenBytes)) = Len(b) - 1 - LenBytes
         THEN Ok(Some(SubSeq(b, 2 + LenBytes, Len(b))))
         ELSE Err("borsh")

\* A node key of the tree: the version the node was created at and its nibble path.
NodeKeyNew(version, path) == [version |-> version, path |-> path]
NewEmptyPath(version) == NodeKeyNew(version, <<>>)
\* NodeKey::gen_child_node_key
GenChildNodeKey(nk, version, nibble) == NodeKeyNew(version, Append(nk.path, nibble))

\* borsh of a NodeKey: version (u64), then the nibble path (count, then packed bytes).
BorshNodeKeyEncode(nk) ==
    ToLeBytes(nk.version, VersionBytes)
        \o ToLeBytes(Len(nk.path), VersionBytes)
        \o BorshVec(PackNibbles(nk.path))

BorshNodeKeyDecode(b) ==
    LET hdr == 2 * VersionBytes + LenBytes IN
    IF Len(b) < hdr THEN Err("borsh")
    ELSE LET version == FromLeBytes(SubSeq(b, 1, VersionBytes))
             count   == FromLeBytes(SubSeq(b, VersionBytes + 1, 2 * VersionBytes))
             n       == FromLeBytes(SubSeq(b, 2 * VersionBytes + 1, hdr))
             packed  == SubSeq(b, hdr + 1, Len(b))
         IN IF n # Len(packed) \/ count > 2 * n \/ (count + 1) \div 2 # n
            THEN Err("borsh")
            ELSE Ok(NodeKeyNew(version, SubSeq(NibblesOf(packed), 1, count)))

(***************************************************************************)
(* DbNodeKey: the order-preserving encoding of node keys.                  *)
(***************************************************************************)
\* DbNodeKey::encode with the version prefix in little-endian byte order.
DbNodeKeyEncode_LittleEndian(nk) ==
    ToLeBytes(nk.version, VersionBytes) \o BorshNodeKeyEncode(nk)

\* DbNodeKey::encode
DbNodeKeyEncode(nk) == ToBeBytes(nk.version, VersionBytes) \o BorshNodeKeyEncode(nk)

\* DbNodeKey::decode that hands the whole slice, version prefix included, to borsh.
DbNodeKeyDecode_KeepPrefix(bytes) ==
    IF Len(bytes) < VersionBytes
    THEN Err("byte slice is too short")
    ELSE BorshNodeKeyDecode(bytes)

\* DbNodeKey::decode that answers the empty path when borsh rejects the remainder.
DbNodeKeyDecode_Lenient(bytes) ==
    IF Len(bytes) < VersionBytes
    THEN Err("byte slice is too short")
    ELSE LET r == BorshNodeKeyDecode(SubSeq(bytes, VersionBytes + 1, Len(bytes)))
         IN IF r.ok THEN r ELSE Ok(NewEmptyPath(0))

\* DbNodeKey::decode
DbNodeKeyDecode(bytes) ==
    IF Len(bytes) < VersionBytes
    THEN Err("byte slice is too short")
    ELSE BorshNodeKeyDecode(SubSeq(bytes, VersionBytes + 1, Len(bytes)))

\* VersionedKeyHash::encode: KeyHash || BE(version)
VersionedKeyHashEncode(version, key_hash) == key_hash \o ToBeBytes(version, VersionBytes)

(***************************************************************************)
(* Tree nodes (jmt::Node).                                                 *)
(***************************************************************************)
NodeNull == [type |-> "Null", key_hash |-> <<>>, value_hash |-> <<>>, children |-> <<>>]
NodeLeaf(key_hash, value_hash) ==
    [type |-> "Leaf", key_hash |-> key_hash, value_hash |-> value_hash, children |-> <<>>]
\* children: for each nibble 0..NibbleBase-1 (at index nibble+1) None or Some(child).
NodeInternal(children) ==
    [type |-> "Internal", key_hash |-> <<>>, value_hash |-> <<>>, children |-> children]
Child(hash, version, is_leaf) == [hash |-> hash, version |-> version, is_leaf |-> is_leaf]
NoChildren == [i \in 1 .. NibbleBase |-> None]

\* The hash of a node, kept structural: equal hashes mean equal subtrees.
NodeHash(node) ==
    IF node.type = "Null" THEN <<9>>
    ELSE IF node.type = "Leaf" THEN <<1>> \o node.key_hash \o node.value_hash
    ELSE LET RECURSIVE Cat(_)
             Cat(i) == IF i > NibbleBase THEN <<>>
                       ELSE (IF IsSome(node.children[i])
                             THEN <<3>> \o Unwrap(node.children[i]).hash \o <<4>>
                             ELSE <<5>>) \o Cat(i + 1)
         IN <<2>> \o Cat(1)

\* RootHash([0; 32])
ZeroRootHash == [i \in 1 .. HashBytes |-> 0]

(***************************************************************************)
(* SubstoreSnapshot: a point-in-time view of the store bound to a version. *)
(* rocksdb_snapshot is the captured view; db is the live store handle.     *)
(***************************************************************************)
SubstoreSnapshotNew(config, view, version, live) ==
    [config |-> config, rocksdb_snapshot |-> view, version |-> version, db |-> live]

\* get_value_option with the upper bound computed by a wrapping add, so that the
\* range of a query at u64::MAX is empty.
GetValueOption_WrappingBound(self, max_version, key_hash) ==
    LET cf_jmt_values == self.rocksdb_snapshot[self.config.cf_jmt_values]
        k             == VersionedKeyHashEncode(U64Max, key_hash)
        lower_bound   == key_hash \o ToBeBytes(0, VersionBytes)
        upper_bound   == key_hash \o ToBeBytes(WrappingAdd1(max_version), VersionBytes)
        in_range      == { x \in DOMAIN cf_jmt_values :
                              ~BytesLess(x, lower_bound) /\ BytesLess(x, upper_bound) }
        last          == CHOOSE x \in in_range : \A y \in in_range : y = x \/ BytesLess(y, x)
    IN IF max_version = U64Max /\ CfHas(cf_jmt_values, k)
       THEN BorshOptionDecode(cf_jmt_values[k])
       ELSE IF in_range = {} THEN Ok(None)
       ELSE BorshOptionDecode(cf_jmt_values[last])

\* TreeReader::get_value_option
GetValueOption(self, max_version, key_hash) ==
    LET cf_jmt_values == self.rocksdb_snapshot[self.config.cf_jmt_values]
        k             == VersionedKeyHashEncode(U64Max, key_hash)
        lower_bound   == key_hash \o ToBeBytes(0, VersionBytes)
        upper_bound   == key_hash \o ToBeBytes(SaturatingAdd1(max_version), VersionBytes)
        in_range      == { x \in DOMAIN cf_jmt_values :
                              ~BytesLess(x, lower_bound) /\ BytesLess(x, upper_bound) }
        last          == CHOOSE x \in in_range : \A y \in in_range : y = x \/ BytesLess(y, x)
    IN IF max_version = U64Max /\ CfHas(cf_jmt_values, k)
       THEN BorshOptionDecode(cf_jmt_values[k])
       ELSE IF in_range = {} THEN Ok(None)
       ELSE BorshOptionDecode(cf_jmt_values[last])

\* TreeReader::get_node_option
GetNodeOption(self, node_key) ==
    LET cf_jmt == self.rocksdb_snapshot[self.config.cf_jmt]
    IN Ok(CfGet(cf_jmt, DbNodeKeyEncode(node_key)))

\* The seek-to-last scan shared by both get_rightmost_leaf functions.
RightmostLeafOf(cf_jmt) ==
    IF DOMAIN cf_jmt # {}
    THEN LET key      == CfLastKey(cf_jmt)
             node_key == DbNodeKeyDecode(key)
             node     == cf_jmt[key]
         IN IF ~node_key.ok THEN Err(node_key.err)
            ELSE IF node.type = "Leaf" THEN Ok(Some(<<Val(node_key), node>>))
            ELSE Ok(None)
    ELSE Ok(None)

\* TreeReader::get_rightmost_leaf
SnapshotGetRightmostLeaf(self) == RightmostLeafOf(self.rocksdb_snapshot[self.config.cf_jmt])

\* SubstoreConfig::get_rightmost_leaf, on the live store
ConfigGetRightmostLeaf(config, db_handle) == RightmostLeafOf(db_handle[config.cf_jmt])

\* SubstoreConfig::latest_version
LatestVersion(config, db_handle) ==
    LET r == ConfigGetRightmostLeaf(config, db_handle)
    IN IF ~r.ok THEN r
       ELSE IF IsSome(Val(r)) THEN Ok(Some(Unwrap(Val(r))[1].version))
       ELSE Ok(None)

\* preimage looking the key hash up in the live store instead of the captured view.
Preimage_Live(self, key_hash) ==
    Ok(CfGet(self.db[self.config.cf_jmt_keys_by_keyhash], key_hash))

\* HasPreimage::preimage
Preimage(self, key_hash) ==
    Ok(CfGet(self.rocksdb_snapshot[self.config.cf_jmt_keys_by_keyhash], key_hash))

(***************************************************************************)
(* The tree algorithm (jmt::Sha256Jmt over a TreeReader), as the commit    *)
(* and the snapshot use it.  A tree cache holds the nodes and values the   *)
(* current put_value_set has produced; reads fall through to the reader.   *)
(***************************************************************************)
EmptyMap == [k \in {} |-> <<>>]
MapPut(m, k, v) == [x \in (DOMAIN m) \cup {k} |-> IF x = k THEN v ELSE m[x]]
MapDelete(m, k) == [x \in (DOMAIN m) \ {k} |-> m[x]]

\* TreeCache::new
TreeCacheNew(reader, next_version) ==
    LET pre_genesis_root_key == NewEmptyPath(U64Max)
    IN IF next_version = 0
       THEN IF IsSome(Val(GetNodeOption(reader, pre_genesis_root_key)))
            THEN [nodes |-> EmptyMap, values |-> EmptyMap,
                  root |-> pre_genesis_root_key, err |-> ""]
            ELSE [nodes |-> MapPut(EmptyMap, NewEmptyPath(0), NodeNull),
                  values |-> EmptyMap, root |-> NewEmptyPath(0), err |-> ""]
       ELSE [nodes |-> EmptyMap, values |-> EmptyMap,
             root |-> NewEmptyPath(next_version - 1), err |-> ""]

\* TreeCache::get_node_option
CacheGetNodeOption(reader, cache, node_key) ==
    IF node_key \in DOMAIN cache.nodes THEN Some(cache.nodes[node_key])
    ELSE Val(GetNodeOption(reader, node_key))

\* TreeCache::put_node
CachePutNode(cache, node_key, node) ==
    IF node_key \in DOMAIN cache.nodes
    THEN [cache EXCEPT !.err = "node already exists in batch"]
    ELSE [cache EXCEPT !.nodes = MapPut(@, node_key, node)]

\* TreeCache::delete_node (the stale-node index is not persisted by this store)
CacheDeleteNode(cache, node_key) == [cache EXCEPT !.nodes = MapDelete(@, node_key)]

PutUpdated(key, node, cache) == [res |-> "Updated", key |-> key, node |-> node, cache |-> cache]
PutNotChanged(cache) ==
    [res |-> "NotChanged", key |-> NewEmptyPath(0), node |-> NodeNull, cache |-> cache]
PutRemoved(cache) ==
    [res |-> "Removed", key |-> NewEmptyPath(0), node |-> NodeNull, cache |-> cache]
PutFailed(cache, e) ==
    [res |-> "Err", key |-> NewEmptyPath(0), node |-> NodeNull,
     cache |-> [cache EXCEPT !.err = e]]

\* JellyfishMerkleTree::create_leaf_node
CreateLeafNode(cache, node_key, key_hash, value_hash) ==
    LET leaf == NodeLeaf(key_hash, value_hash)
    IN PutUpdated(node_key, leaf, CachePutNode(cache, node_key, leaf))

\* The length of the common prefix of two nibble sequences (skip_common_prefix).
RECURSIVE CommonPrefixLen(_, _)
CommonPrefixLen(a, b) ==
    IF Len(a) = 0 \/ Len(b) = 0 \/ a[1] # b[1] THEN 0
    ELSE 1 + CommonPrefixLen(Tail(a), Tail(b))

\* The chain of single-child internal nodes above a new internal node, one for
\* each common nibble below the replaced leaf.
RECURSIVE WrapCommon(_, _, _, _, _)
WrapCommon(cache, version, path, node, n) ==
    IF n = 0 THEN PutUpdated(NodeKeyNew(version, path), node, cache)
    ELSE LET nibble == path[Len(path)]
             up     == SubSeq(path, 1, Len(path) - 1)
             parent == NodeInternal([NoChildren EXCEPT
                          ![nibble + 1] = Some(Child(NodeHash(node), version, FALSE))])
         IN WrapCommon(CachePutNode(cache, NodeKeyNew(version, up), parent),
                       version, up, parent, n - 1)

\* JellyfishMerkleTree::insert_at_leaf_node
InsertAtLeafNode(cache, node_key, existing_leaf, version, nibs, value_hash) ==
    LET depth    == Len(node_key.path)
        existing == NibblesOf(existing_leaf.key_hash)
        skipped  == CommonPrefixLen(SubSeq(nibs, 1, depth), existing)
        below    == CommonPrefixLen(SubSeq(nibs, depth + 1, Len(nibs)),
                                    SubSeq(existing, skipped + 1, Len(existing)))
        common   == SubSeq(nibs, 1, depth + below)
    IN IF depth + below = Len(nibs)
       THEN \* the key is in the tree: replace or remove its leaf
            IF IsSome(value_hash)
            THEN CreateLeafNode(CacheDeleteNode(cache, node_key),
                                NodeKeyNew(version, node_key.path),
                                existing_leaf.key_hash, Unwrap(value_hash))
            ELSE PutRemoved(CacheDeleteNode(cache, node_key))
       ELSE IF ~IsSome(value_hash) THEN PutNotChanged(cache)
       ELSE LET existing_leaf_index == existing[skipped + below + 1]
                new_leaf_index      == nibs[depth + below + 1]
                parent_key          == NodeKeyNew(version, common)
                c1 == CachePutNode(CacheDeleteNode(cache, node_key),
                                   GenChildNodeKey(parent_key, version, existing_leaf_index),
                                   existing_leaf)
                new_leaf == NodeLeaf(PackNibbles(nibs), Unwrap(value_hash))
                c2 == CachePutNode(c1, GenChildNodeKey(parent_key, version, new_leaf_index),
                                   new_leaf)
                internal == NodeInternal([NoChildren EXCEPT
                               ![existing_leaf_index + 1] =
                                   Some(Child(NodeHash(existing_leaf), version, TRUE)),
                               ![new_leaf_index + 1] =
                                   Some(Child(NodeHash(new_leaf), version, TRUE))])
                c3 == CachePutNode(c2, parent_key, internal)
            IN WrapCommon(c3, version, common, internal, below)

\* insert_at_internal_node, last step: the one leaf left under an internal node
\* takes the place of the internal node.
CollapseToLeaf(c1, child_key, new_key, child_node) ==
    IF ~IsSome(child_node) THEN PutFailed(c1, "missing node")
    ELSE PutUpdated(new_key, Unwrap(child_node),
                    CachePutNode(CacheDeleteNode(c1, child_key), new_key, Unwrap(child_node)))

\* insert_at_internal_node, after the old internal node is dropped from the batch:
\* the node that replaces it, given its new children.
ReplaceInternalNode(reader, c1, node_key, version, children) ==
    LET present == { i \in 1 .. NibbleBase : IsSome(children[i]) }
        only    == CHOOSE i \in present : TRUE
        new_key == NodeKeyNew(version, node_key.path)
    IN IF present = {} THEN PutRemoved(c1)
       ELSE IF Cardinality(present) = 1 /\ Unwrap(children[only]).is_leaf
       THEN CollapseToLeaf(c1,
                GenChildNodeKey(node_key, Unwrap(children[only]).version, only - 1),
                new_key,
                CacheGetNodeOption(reader, c1,
                    GenChildNodeKey(node_key, Unwrap(children[only]).version, only - 1)))
       ELSE PutUpdated(new_key, NodeInternal(children),
                       CachePutNode(c1, new_key, NodeInternal(children)))

\* insert_at_internal_node, after the recursive insert below the child returned put.
UpdateInternalNode(reader, node_key, internal_node, version, child_index, put) ==
    IF put.res \in {"NotChanged", "Err"} THEN put
    ELSE ReplaceInternalNode(reader, CacheDeleteNode(put.cache, node_key), node_key, version,
            IF put.res = "Updated"
            THEN [internal_node.children EXCEPT ![child_index + 1] =
                    Some(Child(NodeHash(put.node), version, put.node.type = "Leaf"))]
            ELSE [internal_node.children EXCEPT ![child_index + 1] = None])

RECURSIVE InsertAt(_, _, _, _, _, _)
\* JellyfishMerkleTree::insert_at_internal_node
InsertAtInternalNode(reader, cache, node_key, internal_node, version, nibs, value_hash) ==
    LET child_index == nibs[Len(node_key.path) + 1]
        child       == internal_node.children[child_index + 1]
    IN UpdateInternalNode(reader, node_key, internal_node, version, child_index,
          IF IsSome(child)
          THEN InsertAt(reader, cache,
                        GenChildNodeKey(node_key, Unwrap(child).version, child_index),
                        version, nibs, value_hash)
          ELSE IF IsSome(value_hash)
          THEN CreateLeafNode(cache, GenChildNodeKey(node_key, version, child_index),
                              PackNibbles(nibs), Unwrap(value_hash))
          ELSE PutNotChanged(cache))

\* JellyfishMerkleTree::insert_at, once the node at node_key has been read.
InsertAtNode(reader, cache, node_key, version, nibs, value_hash, found) ==
    IF IsSome(found) /\ Unwrap(found).type = "Internal"
    THEN InsertAtInternalNode(reader, cache, node_key, Unwrap(found), version, nibs,
                              value_hash)
    ELSE IF IsSome(found) /\ Unwrap(found).type = "Leaf"
    THEN InsertAtLeafNode(cache, node_key, Unwrap(found), version, nibs, value_hash)
    ELSE \* Node::Null
         IF Len(node_key.path) # 0 THEN PutFailed(cache, "null node below the root")
         ELSE IF IsSome(value_hash)
         THEN CreateLeafNode(IF node_key.version = version /\ IsSome(found)
                             THEN CacheDeleteNode(cache, node_key) ELSE cache,
                             NewEmptyPath(version), PackNibbles(nibs), Unwrap(value_hash))
         ELSE PutNotChanged(IF node_key.version = version /\ IsSome(found)
                            THEN CacheDeleteNode(cache, node_key) ELSE cache)

\* JellyfishMerkleTree::insert_at
InsertAt(reader, cache, node_key, version, nibs, value_hash) ==
    InsertAtNode(reader, cache, node_key, version, nibs, value_hash,
                 CacheGetNodeOption(reader, cache, node_key))

\* JellyfishMerkleTree::put, after insert_at returned r: the root of the new version.
PutRoot(r, version) ==
    IF r.res = "Updated" THEN [r.cache EXCEPT !.root = r.key]
    ELSE IF r.res = "Removed"
    THEN [CachePutNode(r.cache, NewEmptyPath(version), NodeNull)
             EXCEPT !.root = NewEmptyPath(version)]
    ELSE r.cache

\* JellyfishMerkleTree::put, with TreeCache::put_value
TreePut(reader, cache, version, key_hash, value) ==
    PutRoot(InsertAt(reader,
                     [cache EXCEPT !.values = MapPut(@, <<version, key_hash>>, value)],
                     cache.root, version, NibblesOf(key_hash),
                     IF IsSome(value) THEN Some(ValueHashWith(Unwrap(value))) ELSE None),
            version)

\* TreeCache::freeze, once the root node has been read: the root hash of the
\* version and its root node.
FreezeRoot(cache, next_version, found) ==
    LET c1        == IF IsSome(found) THEN cache ELSE CachePutNode(cache, cache.root, NodeNull)
        root_node == IF IsSome(found) THEN Unwrap(found) ELSE NodeNull
    IN [root_hash |-> NodeHash(root_node),
        cache     |-> IF c1.root.version < next_version
                      THEN [CachePutNode(c1, NewEmptyPath(next_version), root_node)
                               EXCEPT !.root = NewEmptyPath(next_version)]
                      ELSE c1]

\* TreeCache::freeze
TreeFreeze(reader, cache, next_version) ==
    FreezeRoot(cache, next_version, CacheGetNodeOption(reader, cache, cache.root))

RECURSIVE TreePutAll(_, _, _, _)
TreePutAll(reader, cache, version, value_set) ==
    IF Len(value_set) = 0 THEN cache
    ELSE TreePutAll(reader,
                    TreePut(reader, cache, version, value_set[1][1], value_set[1][2]),
                    version, Tail(value_set))

\* The result of put_value_set from the frozen tree cache: the root hash and the
\* node batch (nodes and values), or the error the tree met.
NodeBatchOf(frozen) ==
    IF frozen.cache.err # "" THEN Err(frozen.cache.err)
    ELSE Ok([root_hash |-> frozen.root_hash,
             nodes     |-> frozen.cache.nodes,
             values    |-> frozen.cache.values])

\* Sha256Jmt::put_value_set: value_set is a sequence of <<key_hash, optional value>>.
PutValueSet(reader, value_set, version) ==
    NodeBatchOf(TreeFreeze(reader,
                           TreePutAll(reader, TreeCacheNew(reader, version), version,
                                      value_set),
                           version))

\* Sha256Jmt::get_root_hash_option
GetRootHashOption(reader, version) ==
    LET root == Val(GetNodeOption(reader, NewEmptyPath(version)))
    IN IF IsSome(root) THEN Ok(Some(NodeHash(Unwrap(root)))) ELSE Ok(None)

\* Sha256Jmt::get: walk from the root of the version to the leaf of the key hash
RECURSIVE TreeWalk(_, _, _, _)
TreeWalk(reader, node_key, key_hash, version) ==
    LET found == Val(GetNodeOption(reader, node_key))
    IN IF ~IsSome(found)
       THEN IF Len(node_key.path) = 0 THEN Err("MissingRootError") ELSE Err("missing node")
       ELSE LET node == Unwrap(found)
            IN IF node.type = "Internal"
               THEN LET child_index == NibblesOf(key_hash)[Len(node_key.path) + 1]
                        child       == node.children[child_index + 1]
                    IN IF IsSome(child)
                       THEN TreeWalk(reader,
                                GenChildNodeKey(node_key, Unwrap(child).version, child_index),
                                key_hash, version)
                       ELSE Ok(None)
               ELSE IF node.type = "Leaf"
               THEN IF node.key_hash = key_hash
                    THEN LET v == GetValueOption(reader, version, key_hash)
                         IN IF ~v.ok THEN v
                            ELSE IF IsSome(Val(v)) THEN v
                            ELSE Err("missing value")
                    ELSE Ok(None)
               ELSE Ok(None)

TreeGet(reader, key_hash, version) == TreeWalk(reader, NewEmptyPath(version), key_hash, version)

(***************************************************************************)
(* SubstoreSnapshot: root hash and plain lookup.                           *)
(***************************************************************************)
\* SubstoreSnapshot::root_hash
RootHash(self) ==
    LET r == GetRootHashOption(self, self.version)
    IN IF ~r.ok THEN r
       ELSE IF IsSome(Val(r)) THEN Ok(Unwrap(Val(r))) ELSE Ok(ZeroRootHash)

\* get_jmt without the pre-genesis special case: every error is returned.
GetJmt_NoSentinel(self, key) == TreeGet(self, key, self.version)

\* get_jmt turning a missing root into "not found" at every version.
GetJmt_AnyVersion(self, key) ==
    LET r == TreeGet(self, key, self.version)
    IN IF r.ok THEN r
       ELSE IF r.err = "MissingRootError" THEN Ok(None)
       ELSE r

\* SubstoreSnapshot::get_jmt
GetJmt(self, key) ==
    LET r == TreeGet(self, key, self.version)
    IN IF r.ok THEN r
       ELSE IF r.err = "MissingRootError" /\ self.version = U64Max THEN Ok(None)
       ELSE r

(***************************************************************************)
(* The change-set (Cache) and the writes of one commit.                    *)
(***************************************************************************)
\* A change-set maps each key to "untouched" (<<>>), an upsert (<<Some value>>)
\* or a delete (<<None>>); its entries are visited in key order.
Changes(keys) == [keys -> {<<>>} \cup {<<Some(ValueBytes(v))>> : v \in Values} \cup {<<None>>}]
CacheSize(c) ==
    Cardinality({k \in Keys : c.unwritten_changes[k] # <<>>})
        + Cardinality({k \in NVKeys : c.nonverifiable_changes[k] # <<>>})
Caches ==
    { c \in [unwritten_changes : Changes(Keys), nonverifiable_changes : Changes(NVKeys)] :
        CacheSize(c) <= MaxChanges }

\* The entries of a change map as a sequence of <<key, optional value>>, in key order.
RECURSIVE EntriesFrom(_, _, _)
EntriesFrom(changes, k, n) ==
    IF k > n THEN <<>>
    ELSE (IF changes[k] = <<>> THEN <<>> ELSE << <<k, changes[k][1]>> >>)
            \o EntriesFrom(changes, k + 1, n)

\* commit, lines 333-337: each verifiable change with the hash of its key
UnwrittenChanges(cache) ==
    LET entries == EntriesFrom(cache.unwritten_changes, 1, NumKeys)
    IN [i \in 1 .. Len(entries) |->
          [keyhash |-> KeyHashWith(entries[i][1]),
           key_preimage |-> KeyBytes(entries[i][1]),
           value |-> entries[i][2]]]

\* One write to the backing store: put_cf (value Some) or delete_cf (value None).
WriteOp(phase, cf, key, value) == [phase |-> phase, cf |-> cf, key |-> key, value |-> value]

\* rocksdb put_cf / delete_cf on the live store
ApplyWrite(store, op) ==
    [store EXCEPT ![op.cf] = IF IsSome(op.value) THEN CfPut(@, op.key, Unwrap(op.value))
                             ELSE CfDelete(@, op.key)]

RECURSIVE ApplyWrites(_, _)
ApplyWrites(store, ops) ==
    IF Len(ops) = 0 THEN store ELSE ApplyWrites(ApplyWrite(store, ops[1]), Tail(ops))

\* commit, lines 341-354: the writes to the preimage index and the reverse index
RECURSIVE IndexWrites(_, _)
IndexWrites(config, changes) ==
    IF Len(changes) = 0 THEN <<>>
    ELSE LET c == changes[1]
         IN (IF IsSome(c.value)
             THEN << WriteOp("index", config.cf_jmt_keys, c.key_preimage, Some(c.keyhash)),
                     WriteOp("index", config.cf_jmt_keys_by_keyhash, c.keyhash,
                             Some(c.key_preimage)) >>
             ELSE << WriteOp("index", config.cf_jmt_keys, c.key_preimage, None),
                     WriteOp("index", config.cf_jmt_keys_by_keyhash, c.keyhash, None) >>)
            \o IndexWrites(config, Tail(changes))

\* The order of NodeKey (version, then nibble path) and of (version, key hash),
\* the iteration order of the node batch.
NodeKeyLess(a, b) ==
    \/ a.version < b.version
    \/ a.version = b.version /\ BytesLess(<<Len(a.path)>> \o a.path, <<Len(b.path)>> \o b.path)
ValueKeyLess(a, b) == a[1] < b[1] \/ (a[1] = b[1] /\ BytesLess(a[2], b[2]))

RECURSIVE SortNodeKeys(_)
SortNodeKeys(S) ==
    IF S = {} THEN <<>>
    ELSE LET m == CHOOSE x \in S : \A y \in S : y = x \/ NodeKeyLess(x, y)
         IN <<m>> \o SortNodeKeys(S \ {m})

RECURSIVE SortValueKeys(_)
SortValueKeys(S) ==
    IF S = {} THEN <<>>
    ELSE LET m == CHOOSE x \in S : \A y \in S : y = x \/ ValueKeyLess(x, y)
         IN <<m>> \o SortValueKeys(S \ {m})

\* write_node_batch, lines 393-399: the tree nodes of the batch
NodeWrites(config, nodes) ==
    LET order == SortNodeKeys(DOMAIN nodes)
    IN [i \in 1 .. Len(order) |->
          WriteOp("nodes", config.cf_jmt, DbNodeKeyEncode(order[i]), Some(nodes[order[i]]))]

\* write_node_batch storing an absent value as a deletion of the entry's key
\* instead of an encoded tombstone.
ValueWrites_DeleteAbsent(config, values) ==
    LET order == SortValueKeys(DOMAIN values)
    IN [i \in 1 .. Len(order) |->
          WriteOp("values", config.cf_jmt_values,
                  VersionedKeyHashEncode(order[i][1], order[i][2]),
                  IF IsSome(values[order[i]])
                  THEN Some(BorshOptionEncode(values[order[i]]))
                  ELSE None)]

\* write_node_batch keeping one value-log entry per key hash, under version 0,
\* which every later write of that key hash replaces.
ValueWrites_Unversioned(config, values) ==
    LET order == SortValueKeys(DOMAIN values)
    IN [i \in 1 .. Len(order) |->
          WriteOp("values", config.cf_jmt_values,
                  VersionedKeyHashEncode(0, order[i][2]),
                  Some(BorshOptionEncode(values[order[i]])))]

\* write_node_batch, lines 402-409: the value-log entries of the batch
ValueWrites(config, values) ==
    LET order == SortValueKeys(DOMAIN values)
    IN [i \in 1 .. Len(order) |->
          WriteOp("values", config.cf_jmt_values,
                  VersionedKeyHashEncode(order[i][1], order[i][2]),
                  Some(BorshOptionEncode(values[order[i]])))]

\* TreeWriter::write_node_batch
WriteNodeBatch(config, batch) == NodeWrites(config, batch.nodes) \o ValueWrites(config, batch.values)

\* commit, lines 364-375: the writes to the non-verifiable partition
NonverifiableWrites(config, cache) ==
    LET entries == EntriesFrom(cache.nonverifiable_changes, 1, NumNVKeys)
    IN [i \in 1 .. Len(entries) |->
          WriteOp("nonverifiable", config.cf_nonverifiable, KeyBytes(entries[i][1]),
                  entries[i][2])]

\* put_value_set fed with the non-verifiable changes as well as the verifiable ones.
CommitPutValueSet_WithNonverifiable(cache, substore_snapshot, new_version) ==
    LET changes == UnwrittenChanges(cache)
        others  == EntriesFrom(cache.nonverifiable_changes, 1, NumNVKeys)
    IN PutValueSet(substore_snapshot,
                   [i \in 1 .. Len(changes) |-> <<changes[i].keyhash, changes[i].value>>]
                      \o [i \in 1 .. Len(others) |->
                            <<KeyHashWith(NumKeys + others[i][1]), others[i][2]>>],
                   new_version)

\* commit, lines 356-359: the tree is computed against the pre-commit snapshot
CommitPutValueSet(cache, substore_snapshot, new_version) ==
    LET changes == UnwrittenChanges(cache)
    IN PutValueSet(substore_snapshot,
                   [i \in 1 .. Len(changes) |-> <<changes[i].keyhash, changes[i].value>>],
                   new_version)

\* commit that writes the node batch before the index updates.
CommitWritesWith_NodeBatchFirst(cache, config, tree) ==
    (IF tree.ok THEN WriteNodeBatch(config, Val(tree)) ELSE <<>>)
        \o IndexWrites(config, UnwrittenChanges(cache))
        \o (IF tree.ok THEN NonverifiableWrites(config, cache) ELSE <<>>)

\* SubstoreStorage::commit: every write of the commit, in the order the code
\* performs them, given the result of put_value_set.  A failing put_value_set ends
\* the commit after the index writes.
CommitWritesWith(cache, config, tree) ==
    IndexWrites(config, UnwrittenChanges(cache))
        \o (IF tree.ok
            THEN WriteNodeBatch(config, Val(tree)) \o NonverifiableWrites(config, cache)
            ELSE <<>>)

CommitWrites(cache, substore_snapshot, new_version) ==
    CommitWritesWith(cache, substore_snapshot.config,
                     CommitPutValueSet(cache, substore_snapshot, new_version))

(***************************************************************************)
(* State.                                                                  *)
(***************************************************************************)
VARIABLES
    db,                 \* the live backing store: column family name -> contents
    committed_version,  \* the caller's latest committed version (u64::MAX before genesis)
    history,            \* per committed version (at index version + 1): logical state, root
    pc,                 \* "idle", or "writing" while a commit's unit of work runs
    cache,              \* the change-set of the current (or last) commit
    substore_snapshot,  \* the pre-commit snapshot of the current (or last) commit
    snapshot,           \* the snapshot a reader holds: None or Some([view, version])
    observed,           \* what the reads of the reader's snapshot returned at its creation
    new_version,        \* the version the current (or last) commit writes
    tree,               \* the result of put_value_set of the current (or last) commit
    pending,            \* the writes the running commit has still to perform
    result,             \* what the last commit returned: None, Some(Ok(root)) or Some(Err)
    commits,            \* the number of commits started so far
    changes,            \* the number of change-set entries of the commits started so far
    failures,           \* the number of commits that failed so far
    query,              \* the arguments of a single read studied on its own, or None
    answer,             \* what that read returned, or None
    second_commit       \* a commit another caller runs at the same time: its position and writes

vars == << db, committed_version, history, pc, cache, substore_snapshot, snapshot, observed,
           new_version, tree, pending, result, commits, changes, failures, query, answer,
           second_commit >>

EmptyCache == [unwritten_changes |-> [k \in Keys |-> <<>>],
               nonverifiable_changes |-> [k \in NVKeys |-> <<>>]]
EmptyDb == [c \in AllColumns |-> EmptyCf]
\* No second commit is running.
NoCommit == [pc |-> "idle", cache |-> EmptyCache, new_version |-> 0, tree |-> Err(""),
             pending |-> <<>>, result |-> None]

\* The reader over a view of the store, bound to a version, with the live store behind it.
ReaderOf(view, version) == SubstoreSnapshotNew(Config, view, version, db)
\* The pre-commit snapshot of the current (or last) commit.
CommitReader == ReaderOf(substore_snapshot.view, substore_snapshot.version)

\* Every read a snapshot offers, at its version: value-at-or-before, plain lookup and
\* preimage for each key hash, the root node, the rightmost leaf and the root hash.
ReadsOf(reader) ==
    [ value     |-> [h \in QueriedKeyHashes |-> GetValueOption(reader, reader.version, h)],
      jmt       |-> [h \in QueriedKeyHashes |-> GetJmt(reader, h)],
      preimage  |-> [h \in QueriedKeyHashes |-> Preimage(reader, h)],
      node      |-> GetNodeOption(reader, NewEmptyPath(reader.version)),
      rightmost |-> SnapshotGetRightmostLeaf(reader),
      root_hash |-> RootHash(reader) ]

\* The logical content of the verifiable store after a change-set.
ApplyChanges(state, chg) ==
    [k \in Keys |-> IF chg[k] = <<>> THEN state[k] ELSE chg[k][1]]
NoState == [k \in Keys |-> None]
LatestState == IF Len(history) = 0 THEN NoState ELSE history[Len(history)].state

Init ==
    /\ db = EmptyDb
    /\ committed_version = U64Max
    /\ history = <<>>
    /\ pc = "idle"
    /\ cache = EmptyCache
    /\ substore_snapshot = [view |-> EmptyDb, version |-> U64Max]
    /\ snapshot = None
    /\ observed = None
    /\ new_version = 0
    /\ tree = Err("")
    /\ pending = <<>>
    /\ result = None
    /\ commits = 0
    /\ changes = 0
    /\ failures = 0
    /\ query = None
    /\ answer = None
    /\ second_commit = NoCommit

(***************************************************************************)
(* Actions.                                                                *)
(***************************************************************************)
\* A reader creates a snapshot: a point-in-time view of the store, bound to the
\* latest committed version.  It may do so at any moment, also while a commit runs.
NewSnapshot ==
    /\ snapshot # Some([view |-> db, version |-> committed_version])
    /\ snapshot' = Some([view |-> db, version |-> committed_version])
    /\ observed' = Some(ReadsOf(SubstoreSnapshotNew(Config, db, committed_version, db)))
    /\ UNCHANGED << db, committed_version, history, pc, cache, substore_snapshot,
                    new_version, tree, pending, result, commits, changes, failures,
                    query, answer, second_commit >>

\* The caller starts SubstoreStorage::commit with a change-set, against a snapshot
\* of the latest state, for the next version.  The tree is computed against the
\* snapshot, so its result is fixed from here on.
CommitStartWithin(c, budget) ==
    /\ pc = "idle"
    /\ commits < MaxCommits
    /\ changes + CacheSize(c) <= budget
    /\ cache' = c
    /\ substore_snapshot' = [view |-> db, version |-> committed_version]
    /\ new_version' = WrappingAdd1(committed_version)
    /\ tree' = CommitPutValueSet(c, SubstoreSnapshotNew(Config, db, committed_version, db),
                                 WrappingAdd1(committed_version))
    /\ pending' = CommitWritesWith(c, Config, tree')
    /\ pc' = "writing"
    /\ result' = None
    /\ commits' = commits + 1
    /\ changes' = changes + CacheSize(c)
    /\ UNCHANGED << db, committed_version, history, snapshot, observed, failures,
                    query, answer, second_commit >>

CommitStart(c) == CommitStartWithin(c, MaxTotalChanges)

\* The commit performs its next put_cf / delete_cf on the live store.
CommitWrite ==
    /\ pc = "writing"
    /\ pending # <<>>
    /\ db' = ApplyWrite(db, pending[1])
    /\ pending' = Tail(pending)
    /\ UNCHANGED << committed_version, history, pc, cache, substore_snapshot, snapshot,
                    observed, new_version, tree, result, commits, changes, failures,
                    query, answer, second_commit >>

\* The next write of the commit returns an error: commit returns it to the caller.
CommitFail ==
    /\ pc = "writing"
    /\ pending # <<>>
    /\ failures < MaxFailures
    /\ failures' = failures + 1
    /\ pending' = <<>>
    /\ pc' = "idle"
    /\ result' = Some(Err("backing store"))
    /\ UNCHANGED << db, committed_version, history, cache, substore_snapshot, snapshot,
                    observed, new_version, tree, commits, changes, query, answer, second_commit >>

\* All writes are done: commit returns the root hash (or the error of put_value_set),
\* and the caller takes the new version as committed.
CommitReturn ==
    /\ pc = "writing"
    /\ pending = <<>>
    /\ pc' = "idle"
    /\ IF tree.ok
       THEN /\ result' = Some(Ok(Val(tree).root_hash))
            /\ committed_version' = new_version
            /\ history' = Append(history,
                             [state   |-> ApplyChanges(LatestState, cache.unwritten_changes),
                              changes |-> cache.unwritten_changes,
                              reads   |-> [k \in Keys |->
                                             GetJmt(ReaderOf(db, new_version), KeyHashWith(k))],
                              root    |-> Val(tree).root_hash])
       ELSE /\ result' = Some(Err(tree.err))
            /\ UNCHANGED << committed_version, history >>
    /\ UNCHANGED << db, cache, substore_snapshot, snapshot, observed, new_version, tree,
                    pending, commits, changes, failures, query, answer, second_commit >>

Next ==
    \/ NewSnapshot
    \/ \E c \in Caches : CommitStart(c)
    \/ CommitWrite
    \/ CommitFail
    \/ CommitReturn

Spec == Init /\ [][Next]_vars

\* The commits alone, with no reader holding a snapshot, and a larger budget of changes.
NextCommits ==
    \/ \E c \in Caches : CommitStartWithin(c, MaxTotalChangesAlone)
    \/ CommitWrite
    \/ CommitFail
    \/ CommitReturn
SpecCommits == Init /\ [][NextCommits]_vars

(***************************************************************************)
(* Properties of the commit pipeline and of the read snapshot.             *)
(***************************************************************************)
\* The pre-commit store of the current (or last) commit, and the store with every
\* write of that commit applied.
PreCommitStore == substore_snapshot.view
PostCommitStore == ApplyWrites(PreCommitStore, CommitWrites(cache, CommitReader, new_version))

\* The reader's snapshot, as a SubstoreSnapshot, and a snapshot of the live store
\* taken now and bound to version v.
HeldReader == ReaderOf(Unwrap(snapshot).view, Unwrap(snapshot).version)
LiveReader(v) == ReaderOf(db, v)

\* The versions committed so far: version v is at history[v + 1].
CommittedVersions == { i - 1 : i \in 1 .. Len(history) }
StateAt(v) == history[v + 1].state
ChangesAt(v) == history[v + 1].changes
ReadsAt(v) == history[v + 1].reads

\* C1: a reader never observes a partially-applied commit: while a commit runs, the
\* live store (and so any snapshot taken of it at that moment) holds all of the
\* commit's writes or none of them.
C1_NoPartialCommit ==
    pc = "writing" => (db = PreCommitStore \/ db = PostCommitStore)

\* C2: a commit that fails has no visible effect: when commit has returned an error,
\* every partition holds exactly what it held before the commit started.
C2_FailedCommitNoEffect ==
    (pc = "idle" /\ IsSome(result) /\ ~Unwrap(result).ok) => db = PreCommitStore

\* C3: historical reads are preserved: if key k read as value X at version V and the
\* commit of V+1 deleted k or changed its value, then from then on (through every
\* further commit, running, failed or returned) a snapshot bound to V returns X for
\* k, from the tree and from the value log, and a snapshot bound to V+1 returns
\* absence or the new value.
C3_HistoricalReads ==
    \A v \in CommittedVersions : \A k \in Keys :
        LET x   == ReadsAt(v)[k]
            h   == KeyHashWith(k)
        IN ( /\ v + 1 \in CommittedVersions
             /\ x.ok /\ IsSome(Val(x))
             /\ ChangesAt(v + 1)[k] # <<>>
             /\ ChangesAt(v + 1)[k][1] # Val(x) )
           => /\ GetJmt(LiveReader(v), h) = x
              /\ GetValueOption(LiveReader(v), v, h) = x
              /\ GetJmt(LiveReader(v + 1), h) = Ok(ChangesAt(v + 1)[k][1])
              /\ GetValueOption(LiveReader(v + 1), v + 1, h) = Ok(ChangesAt(v + 1)[k][1])
              /\ (IsSome(snapshot) /\ Unwrap(snapshot).version = v)
                    => /\ GetJmt(HeldReader, h) = x
                       /\ GetValueOption(HeldReader, v, h) = x

\* A key was written at version 0, deleted at version 1, a third commit has returned,
\* and a reader still holds a snapshot bound to version 0.
C3_Witness ==
    /\ Len(history) >= 3
    /\ \E k \in Keys : IsSome(StateAt(0)[k]) /\ ChangesAt(1)[k] = <<None>>
    /\ IsSome(snapshot) /\ Unwrap(snapshot).version = 0
    /\ pc = "idle"

\* C4: snapshot isolation: every read of an existing snapshot (value-at-or-before,
\* plain lookup, preimage, node-at, rightmost-leaf, root hash) returns what it
\* returned when the snapshot was created, before, during and after later commits.
C4_SnapshotIsolation ==
    IsSome(snapshot) => ReadsOf(HeldReader) = Unwrap(observed)

\* A snapshot is held, a commit that started after its creation has returned, and
\* the same reads on the live store give something else.
C4_Witness ==
    /\ IsSome(snapshot)
    /\ pc = "idle" /\ IsSome(result) /\ Unwrap(result).ok
    /\ Unwrap(snapshot).view = PreCommitStore
    /\ ReadsOf(LiveReader(Unwrap(snapshot).version)) # Unwrap(observed)

\* The preimage index and the hash-to-preimage index of a store hold exactly the
\* given keys and are inverses of each other.
IndicesHoldExactly(store, keys) ==
    LET by_key  == store[Config.cf_jmt_keys]
        by_hash == store[Config.cf_jmt_keys_by_keyhash]
    IN /\ DOMAIN by_key = { KeyBytes(k) : k \in keys }
       /\ DOMAIN by_hash = { KeyHashWith(k) : k \in keys }
       /\ \A k \in keys : /\ by_key[KeyBytes(k)] = KeyHashWith(k)
                          /\ by_hash[KeyHashWith(k)] = KeyBytes(k)

\* C5: index consistency: whenever no commit is running, the two indices are exact
\* inverses and hold exactly the keys whose latest committed change was an upsert.
C5_IndexConsistency ==
    pc = "idle" => IndicesHoldExactly(db, { k \in Keys : IsSome(LatestState[k]) })

\* C6: once the commit of V+1 has deleted key k (present at V), preimage(hash(k))
\* resolves to k for a reader bound to V, and does not resolve for a reader bound
\* to V+1 or to a later version at which k is still absent.
C6_PreimageByVersion ==
    IsSome(snapshot) =>
        \A v \in CommittedVersions : \A k \in Keys :
            ( /\ v + 1 \in CommittedVersions
              /\ IsSome(StateAt(v)[k])
              /\ ChangesAt(v + 1)[k] = <<None>> )
            => /\ Unwrap(snapshot).version = v
                    => Preimage(HeldReader, KeyHashWith(k)) = Ok(Some(KeyBytes(k)))
               /\ ( /\ Unwrap(snapshot).version \in CommittedVersions
                    /\ Unwrap(snapshot).version > v
                    /\ \A w \in CommittedVersions :
                          (v < w /\ w <= Unwrap(snapshot).version) => ~IsSome(StateAt(w)[k]) )
                    => Preimage(HeldReader, KeyHashWith(k)) = Ok(None)

(***************************************************************************)
(* get_value_option on its own: the value log holds any entries for the    *)
(* key hashes in use at versions 0, u64::MAX - 1 and u64::MAX, and the     *)
(* function is applied to any key hash and version.                        *)
(***************************************************************************)
LogVersions == {0, U64Max - 1, U64Max}
\* What a value-log entry can hold: a tombstone or a value.
StoredOptions == {None} \cup { Some(ValueBytes(v)) : v \in Values }
\* The value logs: for each key hash and version no entry (<<>>) or an entry.
ValueLogs == [KeyHashes \X LogVersions -> {<<>>} \cup { <<o>> : o \in StoredOptions }]
ValueLogCf(log) ==
    LET present == { e \in KeyHashes \X LogVersions : log[e] # <<>> }
    IN [ x \in { VersionedKeyHashEncode(e[2], e[1]) : e \in present } |->
           LET e == CHOOSE e \in present : VersionedKeyHashEncode(e[2], e[1]) = x
           IN BorshOptionEncode(log[e][1]) ]

InitGV ==
    /\ \E log \in ValueLogs : db = [EmptyDb EXCEPT ![Config.cf_jmt_values] = ValueLogCf(log)]
    /\ committed_version = U64Max
    /\ history = <<>>
    /\ pc = "idle"
    /\ cache = EmptyCache
    /\ substore_snapshot = [view |-> EmptyDb, version |-> U64Max]
    /\ snapshot = None
    /\ observed = None
    /\ new_version = 0
    /\ tree = Err("")
    /\ pending = <<>>
    /\ result = None
    /\ commits = 0
    /\ changes = 0
    /\ failures = 0
    /\ query = None
    /\ answer = None
    /\ second_commit = NoCommit

\* A reader calls get_value_option(max_version, key_hash) on a snapshot of the store.
GetValueQuery(max_version, key_hash) ==
    /\ query = None
    /\ query' = Some([max_version |-> max_version, key_hash |-> key_hash])
    /\ answer' = Some(GetValueOption(ReaderOf(db, committed_version), max_version, key_hash))
    /\ UNCHANGED << db, committed_version, history, pc, cache, substore_snapshot, snapshot,
                    observed, new_version, tree, pending, result, commits, changes, failures,
                 second_commit >>

NextGV == \E max_version \in Versions : \E key_hash \in QueriedKeyHashes :
              GetValueQuery(max_version, key_hash)
SpecGV == InitGV /\ [][NextGV]_vars

\* The versions at or below max_version at which the value log has an entry for key_hash.
EntryVersions(key_hash, max_version) ==
    { v \in Versions : /\ v <= max_version
                       /\ CfHas(db[Config.cf_jmt_values], VersionedKeyHashEncode(v, key_hash)) }
GreatestOf(S) == CHOOSE v \in S : \A w \in S : w <= v
\* The option an entry was encoded from.
StoredOption(bytes) == CHOOSE o \in StoredOptions : BorshOptionEncode(o) = bytes

\* C7: get_value_option(max_version, key_hash) returns what the entry of exactly
\* that key hash with the greatest version <= max_version holds (absence for a
\* tombstone), and absence when there is no such entry, for every max_version,
\* u64::MAX included; entries of other key hashes play no part.
C7_GetValueOption ==
    IsSome(query) =>
        LET q  == Unwrap(query)
            vs == EntryVersions(q.key_hash, q.max_version)
        IN Unwrap(answer) =
              IF vs = {} THEN Ok(None)
              ELSE Ok(StoredOption(db[Config.cf_jmt_values]
                                     [VersionedKeyHashEncode(GreatestOf(vs), q.key_hash)]))

\* A query at u64::MAX for a key hash with no entry at u64::MAX but a value at
\* u64::MAX - 1 and a tombstone at 0, while another key hash has an entry at u64::MAX.
C7_Witness ==
    /\ IsSome(query)
    /\ Unwrap(query).max_version = U64Max
    /\ EntryVersions(Unwrap(query).key_hash, U64Max) = {0, U64Max - 1}
    /\ \E h \in KeyHashes : h # Unwrap(query).key_hash /\ U64Max \in EntryVersions(h, U64Max)
    /\ Unwrap(answer).ok /\ IsSome(Val(Unwrap(answer)))
    /\ GetValueOption(LiveReader(U64Max), 0, Unwrap(query).key_hash) = Ok(None)

(***************************************************************************)
(* The empty tree, the pre-genesis version and the non-verifiable store.   *)
(***************************************************************************)
\* C8 as stated: for a namespace with no commits, a snapshot at any version returns
\* the all-zero root hash from root_hash and Ok(None) from get_jmt for every key hash.
C8_EmptyTreeReadAnyVersion ==
    commits = 0 =>
        \A v \in Versions : \A h \in QueriedKeyHashes :
            /\ RootHash(LiveReader(v)) = Ok(ZeroRootHash)
            /\ GetJmt(LiveReader(v), h) = Ok(None)

\* C8, amended: for a namespace with no commits, root_hash returns the all-zero root
\* hash at any version; get_jmt returns Ok(None) for every key hash at the
\* pre-genesis version u64::MAX, the version of every snapshot taken of such a
\* namespace, and returns the missing-root error at any other version.
C8_EmptyTreeRead ==
    commits = 0 =>
        /\ \A v \in Versions : \A h \in QueriedKeyHashes :
              /\ RootHash(LiveReader(v)) = Ok(ZeroRootHash)
              /\ v = U64Max => GetJmt(LiveReader(v), h) = Ok(None)
              /\ v # U64Max => GetJmt(LiveReader(v), h) = Err("MissingRootError")
        /\ IsSome(snapshot) =>
              /\ Unwrap(snapshot).version = U64Max
              /\ Unwrap(observed).root_hash = Ok(ZeroRootHash)
              /\ \A h \in QueriedKeyHashes : Unwrap(observed).jmt[h] = Ok(None)

\* A reader has taken a snapshot of the namespace before any commit and read it.
C8_Witness ==
    /\ commits = 0
    /\ IsSome(snapshot)
    /\ RootHash(HeldReader) = Ok(ZeroRootHash)
    /\ \A h \in QueriedKeyHashes : GetJmt(HeldReader, h) = Ok(None)

\* C9: get_jmt answers "not found" for a missing root if and only if the snapshot's
\* version is u64::MAX; a missing root at any other version, and every other error
\* at every version, is returned as the tree returned it, and so is every success.
C9_MissingRootOnlyAtSentinel ==
    \A v \in Versions : \A h \in QueriedKeyHashes :
        LET r == TreeGet(LiveReader(v), h, v)
            g == GetJmt(LiveReader(v), h)
        IN /\ r.ok => g = r
           /\ (~r.ok /\ r.err = "MissingRootError" /\ v = U64Max) => g = Ok(None)
           /\ (~r.ok /\ r.err = "MissingRootError" /\ v # U64Max) => g = r
           /\ (~r.ok /\ r.err # "MissingRootError") => g = r

\* In one state the tree reports a missing root at u64::MAX and at another version,
\* a different error at a third version, and a value at a fourth.
C9_Witness ==
    /\ \E h \in QueriedKeyHashes : TreeGet(LiveReader(U64Max), h, U64Max) = Err("MissingRootError")
    /\ \E v \in Versions \ {U64Max} : \E h \in QueriedKeyHashes :
          TreeGet(LiveReader(v), h, v) = Err("MissingRootError")
    /\ \E v \in Versions : \E h \in QueriedKeyHashes :
          LET r == TreeGet(LiveReader(v), h, v)
          IN ~r.ok /\ r.err # "MissingRootError"
    /\ \E v \in Versions : \E h \in QueriedKeyHashes :
          LET r == TreeGet(LiveReader(v), h, v)
          IN r.ok /\ IsSome(Val(r))

\* A store without the contents of its non-verifiable partition.
WithoutNonverifiable(store) == [store EXCEPT ![Config.cf_nonverifiable] = EmptyCf]

\* C10: the tree (root hash and node batch) a commit computes is the same for every
\* non-verifiable change-set and every content of the non-verifiable partition,
\* given the same pre-commit state and verifiable changes; commit returns that
\* tree's root hash; the non-verifiable writes go to the non-verifiable partition
\* only; and the root hash of a snapshot at any version does not depend on the
\* non-verifiable partition.
C10_NonverifiableIsolation ==
    /\ commits > 0 =>
          /\ \A nv \in Changes(NVKeys) :
                LET other == [cache EXCEPT !.nonverifiable_changes = nv]
                    ops   == NonverifiableWrites(Config, other)
                IN /\ CommitPutValueSet(other, CommitReader, new_version) = tree
                   /\ \A i \in DOMAIN ops : ops[i].cf = Config.cf_nonverifiable
          /\ CommitPutValueSet(cache, ReaderOf(WithoutNonverifiable(PreCommitStore),
                                               substore_snapshot.version),
                               new_version) = tree
          /\ \A i \in DOMAIN pending :
                pending[i].cf = Config.cf_nonverifiable <=> pending[i].phase = "nonverifiable"
    /\ (pc = "idle" /\ IsSome(result) /\ Unwrap(result).ok) =>
          Unwrap(result) = Ok(Val(tree).root_hash)
    /\ \A v \in Versions :
          RootHash(LiveReader(v)) = RootHash(ReaderOf(WithoutNonverifiable(db), v))

\* A commit with a verifiable and a non-verifiable change has returned a root hash,
\* and the non-verifiable partition holds data.
C10_Witness ==
    /\ pc = "idle" /\ IsSome(result) /\ Unwrap(result).ok
    /\ \E k \in Keys : cache.unwritten_changes[k] # <<>>
    /\ \E k \in NVKeys : IsSome(cache.nonverifiable_changes[k])
    /\ db[Config.cf_nonverifiable] # EmptyCf
    /\ RootHash(LiveReader(committed_version)) = Ok(Val(Unwrap(result)))

(***************************************************************************)
(* The empty commit and the latest version.                                *)
(***************************************************************************)
\* The commit of version v made no verifiable change.
EmptyCommitAt(v) == \A k \in Keys : ChangesAt(v)[k] = <<>>

\* C11: an empty change-set committed at version V+1 over latest version V returns
\* the root hash of version V, the root hashes of snapshots at V and V+1 agree, and
\* a snapshot at V+1 returns for every key what a snapshot at V returns.
C11_EmptyCommitRoot ==
    \A v \in CommittedVersions :
        (v + 1 \in CommittedVersions /\ EmptyCommitAt(v + 1)) =>
            /\ history[v + 2].root = history[v + 1].root
            /\ pc = "idle" => RootHash(LiveReader(v + 1)) = RootHash(LiveReader(v))
            /\ \A h \in QueriedKeyHashes :
                  GetJmt(LiveReader(v + 1), h) = GetJmt(LiveReader(v), h)

\* C12: latest_version returns None when the tree-nodes partition is empty, and
\* after any sequence of successful commits at increasing versions it returns the
\* version of the most recent commit.
C12_LatestVersion ==
    /\ db[Config.cf_jmt] = EmptyCf => LatestVersion(Config, db) = Ok(None)
    /\ (pc = "idle" /\ failures = 0 /\ Len(history) > 0) =>
          LatestVersion(Config, db) = Ok(Some(committed_version))

\* The node stored under the last key of the tree-nodes partition of a store.
LastNode(store) == store[Config.cf_jmt][CfLastKey(store[Config.cf_jmt])]

\* C13: when the last entry of the tree-nodes partition is an internal node, the
\* rightmost-leaf query of the store and of a snapshot, and latest_version, return
\* an error, unlike the Ok(None) of an empty partition.
C13_InternalRightmostIsFault ==
    (db[Config.cf_jmt] # EmptyCf /\ LastNode(db).type = "Internal") =>
        /\ ~ConfigGetRightmostLeaf(Config, db).ok
        /\ ~SnapshotGetRightmostLeaf(LiveReader(committed_version)).ok
        /\ ~LatestVersion(Config, db).ok

(***************************************************************************)
(* DbNodeKey::encode and DbNodeKey::decode on their own: a caller encodes   *)
(* a node key, decodes the bytes it got, or decodes bytes read from a      *)
(* store that may be damaged.                                              *)
(***************************************************************************)
\* The longest nibble path of the node keys handed to the codec.
MaxPathLen == 3

\* Versions on both sides of every byte boundary of the 8-byte encoding.
CodecVersions ==
    (0 .. MaxCommits)
        \cup { ByteBase - 1, ByteBase, ByteBase + 1,
               BytePow[VersionBytes] - 1, BytePow[VersionBytes], BytePow[VersionBytes] + 1,
               U64Max - 1, U64Max }

NibblePaths == UNION { [1 .. n -> Nibbles] : n \in 0 .. MaxPathLen }
NodeKeys == { NodeKeyNew(v, p) : v \in CodecVersions, p \in NibblePaths }

\* What a damaged store can hold in place of an encoded node key: the encoding cut
\* short, with one byte replaced, or with one byte appended.
Truncations(e) == { SubSeq(e, 1, n) : n \in 0 .. Len(e) }
Replacements(e) == { [e EXCEPT ![i] = b] : i \in 1 .. Len(e), b \in Bytes }
Extensions(e) == { Append(e, b) : b \in Bytes }
StoredKeyBytes ==
    UNION { Truncations(DbNodeKeyEncode(k)) \cup Replacements(DbNodeKeyEncode(k))
                \cup Extensions(DbNodeKeyEncode(k)) : k \in NodeKeys }

InitCodec ==
    /\ db = EmptyDb
    /\ committed_version = U64Max
    /\ history = <<>>
    /\ pc = "idle"
    /\ cache = EmptyCache
    /\ substore_snapshot = [view |-> EmptyDb, version |-> U64Max]
    /\ snapshot = None
    /\ observed = None
    /\ new_version = 0
    /\ tree = Err("")
    /\ pending = <<>>
    /\ result = None
    /\ commits = 0
    /\ changes = 0
    /\ failures = 0
    /\ query = None
    /\ answer = None
    /\ second_commit = NoCommit

CodecFrame ==
    UNCHANGED << db, committed_version, history, pc, cache, substore_snapshot, snapshot,
                 observed, new_version, tree, pending, result, commits, changes, failures,
                 second_commit >>

\* DbNodeKey::from(node_key).encode()
EncodeNodeKey(node_key) ==
    /\ query = None
    /\ query' = Some([op |-> "encode", node_key |-> node_key])
    /\ answer' = Some(Ok(DbNodeKeyEncode(node_key)))
    /\ CodecFrame

\* DbNodeKey::decode of the bytes the last encode returned.
DecodeEncoded ==
    /\ IsSome(query)
    /\ Unwrap(query).op = "encode"
    /\ query' = Some([op |-> "decode_encoded", node_key |-> Unwrap(query).node_key])
    /\ answer' = Some(DbNodeKeyDecode(Val(Unwrap(answer))))
    /\ CodecFrame

\* DbNodeKey::decode of bytes read from the store.
DecodeBytes(bytes) ==
    /\ query = None
    /\ query' = Some([op |-> "decode", bytes |-> bytes])
    /\ answer' = Some(DbNodeKeyDecode(bytes))
    /\ CodecFrame

NextCodec ==
    \/ \E node_key \in NodeKeys : EncodeNodeKey(node_key)
    \/ DecodeEncoded
    \/ \E bytes \in StoredKeyBytes : DecodeBytes(bytes)
SpecCodec == InitCodec /\ [][NextCodec]_vars

\* C14: the encoding of a node key is bytewise less than the encoding of every node
\* key of a greater version, whatever the two nibble paths are.
C14_OrderPreservation ==
    (IsSome(query) /\ Unwrap(query).op = "encode") =>
        \A other \in NodeKeys :
            /\ Unwrap(query).node_key.version < other.version =>
                  BytesLess(Val(Unwrap(answer)), DbNodeKeyEncode(other))
            /\ other.version < Unwrap(query).node_key.version =>
                  BytesLess(DbNodeKeyEncode(other), Val(Unwrap(answer)))

\* A key of version ByteBase with the longest path has been encoded: its low version
\* byte is 0 and its path is longer than that of keys of lesser and greater versions.
C14_Witness ==
    /\ IsSome(query)
    /\ Unwrap(query).op = "encode"
    /\ Unwrap(query).node_key.version = ByteBase
    /\ Len(Unwrap(query).node_key.path) = MaxPathLen
    /\ BytesLess(DbNodeKeyEncode(NodeKeyNew(ByteBase - 1, <<>>)), Val(Unwrap(answer)))
    /\ BytesLess(Val(Unwrap(answer)), DbNodeKeyEncode(NodeKeyNew(ByteBase + 1, <<>>)))

\* C15: decoding the encoding of a node key succeeds and yields that node key, the
\* same version and the same nibble path.
C15_RoundTrip ==
    (IsSome(query) /\ Unwrap(query).op = "decode_encoded") =>
        Unwrap(answer) = Ok(Unwrap(query).node_key)

\* A key of version u64::MAX - 1 with a path of odd length has been encoded and
\* decoded again.
C15_Witness ==
    /\ IsSome(query)
    /\ Unwrap(query).op = "decode_encoded"
    /\ Unwrap(query).node_key.version = U64Max - 1
    /\ Len(Unwrap(query).node_key.path) % 2 = 1
    /\ Unwrap(query).node_key.path[Len(Unwrap(query).node_key.path)] # 0
    /\ Unwrap(answer).ok
    /\ Val(Unwrap(answer)).path = Unwrap(query).node_key.path

\* C19: decoding bytes shorter than the version width is the error "byte slice is
\* too short"; decoding longer bytes whose remainder after the version borsh rejects
\* is an error too; an error carries no node key.
C19_DecodeErrors ==
    (IsSome(query) /\ Unwrap(query).op = "decode") =>
        LET bytes == Unwrap(query).bytes IN
        /\ Len(bytes) < VersionBytes => Unwrap(answer) = Err("byte slice is too short")
        /\ (/\ Len(bytes) >= VersionBytes
            /\ ~BorshNodeKeyDecode(SubSeq(bytes, VersionBytes + 1, Len(bytes))).ok) =>
               (~Unwrap(answer).ok /\ Unwrap(answer).val = <<>>)
        /\ ~Unwrap(answer).ok => Unwrap(answer).val = <<>>

\* Bytes longer than the version width, whose remainder borsh rejects, have been
\* decoded; cut to one byte less than the version width they are too short.
C19_Witness ==
    /\ IsSome(query)
    /\ Unwrap(query).op = "decode"
    /\ Len(Unwrap(query).bytes) > VersionBytes
    /\ ~Unwrap(answer).ok
    /\ Unwrap(answer).err # "byte slice is too short"
    /\ SubSeq(Unwrap(query).bytes, 1, VersionBytes - 1) \in StoredKeyBytes
    /\ DbNodeKeyDecode(SubSeq(Unwrap(query).bytes, 1, VersionBytes - 1))
           = Err("byte slice is too short")

(***************************************************************************)
(* Two callers of SubstoreStorage::commit on the same namespace.  Each     *)
(* call runs on its own blocking task with its own clone of the store      *)
(* handle (lines 324-328); both write to the live store.                   *)
(***************************************************************************)
\* The unit of work of a commit of change-set c for version v with tree result t.
CommitTask(c, v, t) ==
    [pc |-> "writing", cache |-> c, new_version |-> v, tree |-> t,
     pending |-> CommitWritesWith(c, Config, t), result |-> None]

\* Another caller starts commit for the same namespace while a commit is running,
\* against a snapshot of the store as it is now, for the next version.
SecondCommitStart(c) ==
    /\ pc = "writing"
    /\ second_commit.pc = "idle"
    /\ commits < MaxCommits
    /\ changes + CacheSize(c) <= MaxTotalChanges
    /\ second_commit' =
          CommitTask(c, WrappingAdd1(committed_version),
                     CommitPutValueSet(c, SubstoreSnapshotNew(Config, db, committed_version, db),
                                       WrappingAdd1(committed_version)))
    /\ commits' = commits + 1
    /\ changes' = changes + CacheSize(c)
    /\ UNCHANGED << db, committed_version, history, pc, cache, substore_snapshot, snapshot,
                    observed, new_version, tree, pending, result, failures, query, answer >>

\* The second commit performs its next put_cf / delete_cf on the live store.
SecondCommitWrite ==
    /\ second_commit.pc = "writing"
    /\ second_commit.pending # <<>>
    /\ db' = ApplyWrite(db, second_commit.pending[1])
    /\ second_commit' = [second_commit EXCEPT !.pending = Tail(@)]
    /\ UNCHANGED << committed_version, history, pc, cache, substore_snapshot, snapshot,
                    observed, new_version, tree, pending, result, commits, changes, failures,
                    query, answer >>

\* The next write of the second commit returns an error.
SecondCommitFail ==
    /\ second_commit.pc = "writing"
    /\ second_commit.pending # <<>>
    /\ failures < MaxFailures
    /\ failures' = failures + 1
    /\ second_commit' = [second_commit EXCEPT !.pc = "idle", !.pending = <<>>,
                                              !.result = Some(Err("backing store"))]
    /\ UNCHANGED << db, committed_version, history, pc, cache, substore_snapshot, snapshot,
                    observed, new_version, tree, pending, result, commits, changes,
                    query, answer >>

\* The second commit has done all its writes and returns.
SecondCommitReturn ==
    /\ second_commit.pc = "writing"
    /\ second_commit.pending = <<>>
    /\ second_commit' =
          [second_commit EXCEPT
              !.pc = "idle",
              !.result = IF second_commit.tree.ok
                         THEN Some(Ok(Val(second_commit.tree).root_hash))
                         ELSE Some(Err(second_commit.tree.err))]
    /\ UNCHANGED << db, committed_version, history, pc, cache, substore_snapshot, snapshot,
                    observed, new_version, tree, pending, result, commits, changes, failures,
                    query, answer >>

NextWriters ==
    \/ \E c \in Caches : CommitStart(c)
    \/ CommitWrite
    \/ CommitFail
    \/ CommitReturn
    \/ \E c \in Caches : SecondCommitStart(c)
    \/ SecondCommitWrite
    \/ SecondCommitFail
    \/ SecondCommitReturn
SpecWriters == Init /\ [][NextWriters]_vars

\* A unit of work that has done some of its writes (all) and has others (rest) to do.
Midway(all, rest) == 0 < Len(rest) /\ Len(rest) < Len(all)
FirstMidway == pc = "writing" /\ Midway(CommitWritesWith(cache, Config, tree), pending)
SecondMidway ==
    /\ second_commit.pc = "writing"
    /\ Midway(CommitWritesWith(second_commit.cache, Config, second_commit.tree),
              second_commit.pending)
\* The step is a backing-store write of the first, of the second commit.
FirstWrites == pc = "writing" /\ pc' = "writing" /\ pending' # pending
SecondWrites ==
    /\ second_commit.pc = "writing"
    /\ second_commit'.pc = "writing"
    /\ second_commit'.pending # second_commit.pending

\* C16: between the first and the last backing-store write of a commit no write of
\* another commit on the same namespace takes effect.
C16_NoInterleaving ==
    [][ /\ FirstWrites => ~SecondMidway
        /\ SecondWrites => ~FirstMidway ]_vars

\* The place of a partition in the protocol of commit: the two indices, the tree
\* nodes, the value log, the non-verifiable partition.
CfRank(cf) ==
    IF cf \in {Config.cf_jmt_keys, Config.cf_jmt_keys_by_keyhash} THEN 1
    ELSE IF cf = Config.cf_jmt THEN 2
    ELSE IF cf = Config.cf_jmt_values THEN 3
    ELSE 4
InProtocolOrder(ops) ==
    \A i, j \in 1 .. Len(ops) : i < j => CfRank(ops[i].cf) <= CfRank(ops[j].cf)
\* The writes of the running commit that are done.
WritesDone(all) == SubSeq(all, 1, Len(all) - Len(pending))
IndexWritesIn(ops) == { i \in 1 .. Len(ops) : CfRank(ops[i].cf) = 1 }
AllWritesOrdered(all) ==
    /\ pending = SubSeq(all, Len(all) - Len(pending) + 1, Len(all))
    /\ InProtocolOrder(all)
    /\ Cardinality(IndexWritesIn(all)) = 2 * Len(UnwrittenChanges(cache))
    /\ db = ApplyWrites(PreCommitStore, WritesDone(all))

ValueLogEntry(store, version, key_hash) ==
    CfGet(store[Config.cf_jmt_values], VersionedKeyHashEncode(version, key_hash))
ValueLogWritesIn(ops) == { i \in 1 .. Len(ops) : ops[i].cf = Config.cf_jmt_values }
TombstonesWritten(all) ==
    /\ \A i \in ValueLogWritesIn(all) :
          /\ IsSome(all[i].value)
          /\ \E h \in KeyHashes : all[i].key = VersionedKeyHashEncode(new_version, h)
    /\ \A k \in Keys :
          cache.unwritten_changes[k] = <<None>> =>
              \E i \in ValueLogWritesIn(all) :
                  /\ all[i].key = VersionedKeyHashEncode(new_version, KeyHashWith(k))
                  /\ all[i].value = Some(BorshOptionEncode(None))

\* C18: a commit at version V puts its value-log entries, a tombstone for every
\* deleted key among them, under (key hash, V) and deletes none; every value-log
\* entry of a version less than V is what it was before the commit.
C18_ValueLogAppendOnly ==
    /\ pc = "writing" => TombstonesWritten(CommitWritesWith(cache, Config, tree))
    /\ \A h \in KeyHashes : \A v \in 0 .. MaxCommits :
          v < new_version =>
              ValueLogEntry(db, v, h) = ValueLogEntry(PreCommitStore, v, h)

\* A key written at version 0 has been deleted at version 1: the log holds the value
\* under version 0 and the tombstone under version 1, and a read at version 0 still
\* returns the value.
C18_Witness ==
    /\ pc = "idle"
    /\ committed_version = 1
    /\ \E k \in Keys :
          /\ cache.unwritten_changes[k] = <<None>>
          /\ ValueLogEntry(db, 1, KeyHashWith(k)) = Some(BorshOptionEncode(None))
          /\ IsSome(ValueLogEntry(db, 0, KeyHashWith(k)))
          /\ ValueLogEntry(db, 0, KeyHashWith(k)) = ValueLogEntry(PreCommitStore, 0, KeyHashWith(k))
          /\ ValueLogEntry(db, 0, KeyHashWith(k)) # Some(BorshOptionEncode(None))
          /\ GetValueOption(LiveReader(1), 0, KeyHashWith(k)).ok
          /\ IsSome(Val(GetValueOption(LiveReader(1), 0, KeyHashWith(k))))

(***************************************************************************)
(* Several namespaces in one backing store: the other namespaces hold a    *)
(* committed version 0 of their own, and commits run on the root           *)
(* namespace.                                                              *)
(***************************************************************************)
OtherPrefixes == Prefixes \ {Config.prefix}

\* The change-sets the other namespaces were filled with: MaxChanges upserts, no deletion.
SeedCaches ==
    { c \in Caches :
        /\ CacheSize(c) = MaxChanges
        /\ c.nonverifiable_changes[1] \notin {<<>>, <<None>>}
        /\ \A k \in Keys : c.unwritten_changes[k] # <<None>> }

\* The store after commit(c, version 0) on the still empty namespace of config.
SeedCommit(store, config, c) ==
    ApplyWrites(store,
                CommitWritesWith(c, config,
                    CommitPutValueSet(c, SubstoreSnapshotNew(config, store, U64Max, store), 0)))

RECURSIVE SeedStore(_, _, _)
SeedStore(store, prefixes, c) ==
    IF prefixes = {} THEN store
    ELSE LET p == CHOOSE p \in prefixes : TRUE
         IN SeedStore(SeedCommit(store, SubstoreConfigNew(p), c), prefixes \ {p}, c)

InitNamespaces ==
    /\ \E c \in SeedCaches : db = SeedStore(EmptyDb, OtherPrefixes, c)
    /\ committed_version = U64Max
    /\ history = <<>>
    /\ pc = "idle"
    /\ cache = EmptyCache
    /\ substore_snapshot = [view |-> EmptyDb, version |-> U64Max]
    /\ snapshot = None
    /\ observed = None
    /\ new_version = 0
    /\ tree = Err("")
    /\ pending = <<>>
    /\ result = None
    /\ commits = 0
    /\ changes = 0
    /\ failures = 0
    /\ query = None
    /\ answer = None
    /\ second_commit = NoCommit

NextNamespaces ==
    \/ \E c \in Caches : CommitStart(c)
    \/ CommitWrite
    \/ CommitFail
    \/ CommitReturn
SpecNamespaces == InitNamespaces /\ [][NextNamespaces]_vars

\* The reader of the namespace with prefix p over a store, at its version 0.
NamespaceReader(p, store) == SubstoreSnapshotNew(SubstoreConfigNew(p), store, 0, store)
\* Everything a reader of the namespace with prefix p can learn from a store.
NamespaceView(p, store) ==
    [ columns        |-> [cf \in Columns(SubstoreConfigNew(p)) |-> store[cf]],
      reads          |-> ReadsOf(NamespaceReader(p, store)),
      latest_version |-> LatestVersion(SubstoreConfigNew(p), store) ]

DistinctPartitions ==
    \A p \in Prefixes :
        /\ Cardinality(Columns(SubstoreConfigNew(p))) = 5
        /\ \A q \in Prefixes \ {p} :
              Columns(SubstoreConfigNew(p)) \cap Columns(SubstoreConfigNew(q)) = {}

\* C20: the partition names of distinct prefixes are pairwise distinct; a commit on
\* one namespace writes only to the five partitions of that namespace, and the
\* partitions, root hash, latest version and read results of every other namespace
\* are what they were before the commit.
C20_NamespaceIsolation ==
    /\ DistinctPartitions
    /\ pc = "writing" =>
          \A i \in 1 .. Len(pending) : pending[i].cf \in Columns(Config)
    /\ commits > 0 =>
          \A q \in OtherPrefixes : NamespaceView(q, db) = NamespaceView(q, PreCommitStore)

\* A commit on the root namespace has written verifiable and non-verifiable data
\* while every other namespace holds a tree, a value log and non-verifiable data.
C20_Witness ==
    /\ pc = "idle"
    /\ committed_version = 0
    /\ db[Config.cf_jmt_values] # EmptyCf
    /\ db[Config.cf_nonverifiable] # EmptyCf
    /\ \A q \in OtherPrefixes :
          /\ db[SubstoreConfigNew(q).cf_nonverifiable] # EmptyCf
          /\ db[SubstoreConfigNew(q).cf_jmt_values] # EmptyCf
          /\ NamespaceView(q, db).latest_version = Ok(Some(0))
          /\ NamespaceView(q, db).reads.root_hash # RootHash(LiveReader(0))

(***************************************************************************)
(* Stateless transaction checks: no_duplicate_nullifiers.  A transaction   *)
(* is seen through tx.spent_nullifiers(), the nullifiers of its spends in  *)
(* action order.                                                           *)
(***************************************************************************)
\* The number of distinct nullifiers, and the most spends of one transaction.
NumNullifiers == 3
MaxSpends == 4

Nullifiers == 1 .. NumNullifiers
SpentNullifierSeqs == UNION { [1 .. n -> Nullifiers] : n \in 0 .. MaxSpends }

\* BTreeSet::replace: the element equal to nf that was in the set, if any, and the set
\* with nf in it.
BTreeSetReplace(set, nf) ==
    [ replaced |-> IF nf \in set THEN Some(nf) ELSE None,
      set      |-> set \cup {nf} ]

\* The error of line 26, naming the duplicate.
DuplicateNullifierError(duplicate) ==
    [ok |-> FALSE, val |-> <<>>, err |-> "Duplicate nullifier in transaction",
     duplicate |-> duplicate]

\* no_duplicate_nullifiers comparing each nullifier with the one before it only.
NoDuplicateNullifiers_AdjacentOnly(nfs) ==
    IF \E i \in 1 .. (Len(nfs) - 1) : nfs[i] = nfs[i + 1]
    THEN LET i == CHOOSE i \in 1 .. (Len(nfs) - 1) :
                      /\ nfs[i] = nfs[i + 1]
                      /\ \A j \in 1 .. (i - 1) : nfs[j] # nfs[j + 1]
         IN DuplicateNullifierError(nfs[i])
    ELSE Ok(<<>>)

\* The loop of lines 24-31 from the i-th nullifier on, with the set built so far.
RECURSIVE SpentNullifiersLoop(_, _, _)
SpentNullifiersLoop(nfs, i, spent_nullifiers) ==
    IF i > Len(nfs) THEN Ok(<<>>)
    ELSE IF IsSome(BTreeSetReplace(spent_nullifiers, nfs[i]).replaced)
         THEN DuplicateNullifierError(Unwrap(BTreeSetReplace(spent_nullifiers, nfs[i]).replaced))
         ELSE SpentNullifiersLoop(nfs, i + 1, BTreeSetReplace(spent_nullifiers, nfs[i]).set)

\* no_duplicate_nullifiers(tx), for a transaction whose spent nullifiers are nfs.
NoDuplicateNullifiers(nfs) == SpentNullifiersLoop(nfs, 1, {})

\* No store activity: the check is stateless.
InitNullifiers == InitCodec

\* A transaction is checked.
CheckTransaction(nfs) ==
    /\ query = None
    /\ query' = Some([op |-> "no_duplicate_nullifiers", spent_nullifiers |-> nfs])
    /\ answer' = Some(NoDuplicateNullifiers(nfs))
    /\ CodecFrame

NextNullifiers == \E nfs \in SpentNullifierSeqs : CheckTransaction(nfs)
SpecNullifiers == InitNullifiers /\ [][NextNullifiers]_vars

\* The nullifiers that occur at least twice in a sequence.
Duplicated(nfs) ==
    { nfs[i] : i \in { i \in 1 .. Len(nfs) : \E j \in 1 .. Len(nfs) : j # i /\ nfs[j] = nfs[i] } }

\* C21: no_duplicate_nullifiers returns an error exactly when some nullifier occurs
\* at least twice among the spent nullifiers of the transaction, and the error names
\* a nullifier that does; otherwise, also for a transaction with no spend, it
\* returns Ok(()).
C21_NoDuplicateNullifiers ==
    (IsSome(query) /\ Unwrap(query).op = "no_duplicate_nullifiers") =>
        /\ Unwrap(answer).ok <=> Duplicated(Unwrap(query).spent_nullifiers) = {}
        /\ Unwrap(answer).ok => Unwrap(answer) = Ok(<<>>)
        /\ ~Unwrap(answer).ok =>
              /\ Unwrap(answer).err = "Duplicate nullifier in transaction"
              /\ Unwrap(answer).duplicate \in Duplicated(Unwrap(query).spent_nullifiers)

\* A transaction of MaxSpends spends whose last nullifier repeats an earlier one
\* that is not next to it has been rejected; without its last spend it passes.
C21_Witness ==
    /\ IsSome(query)
    /\ Unwrap(query).op = "no_duplicate_nullifiers"
    /\ Len(Unwrap(query).spent_nullifiers) = MaxSpends
    /\ Unwrap(query).spent_nullifiers[MaxSpends] = Unwrap(query).spent_nullifiers[1]
    /\ Unwrap(query).spent_nullifiers[MaxSpends] # Unwrap(query).spent_nullifiers[MaxSpends - 1]
    /\ ~Unwrap(answer).ok
    /\ Unwrap(answer).duplicate = Unwrap(query).spent_nullifiers[1]
    /\ NoDuplicateNullifiers(SubSeq(Unwrap(query).spent_nullifiers, 1, MaxSpends - 1)) = Ok(<<>>)

====
